---- MODULE Spec2Model ----
(***************************************************************************)
(* Trait resolution as exercised by src/by_example_notes/src/              *)
(* traits_basic.rs.  The state is the set of items in scope (trait         *)
(* declarations and impl blocks), the standard output written by the       *)
(* functions of the file, and the outcome of the last item or call.        *)
(*                                                                         *)
(* A trait is a capability; an impl block is a conformance; the method     *)
(* table of a (type, trait) pair holds, for each method of the trait, the  *)
(* body the impl gives or else the trait's default body.  `impl Trait`     *)
(* parameters are resolved per argument (indirect), a named type           *)
(* parameter <T: Trait> is resolved once for T (fixed).                    *)
(*                                                                         *)
(* The model covers coherent programs: a trait name is declared at most    *)
(* once and a (type, trait) pair has at most one impl block.  A rejected   *)
(* item or call is recorded with the kind of the compiler's diagnostic:    *)
(*   MissingImplementation  (E0046, a required method has no body)         *)
(*   NotImplemented         (E0277, a trait bound is not satisfied)        *)
(*   TypeMismatch           (E0308, no single T fits both arguments)       *)
(***************************************************************************)
EXTENDS Integers, Sequences, FiniteSets, TLC

VARIABLES traits, impls, stdout, last

vars == <<traits, impls, stdout, last>>

\* ---------------------------------------------------------------- bounds
\* lines of standard output kept
MaxOut == 1

\* ------------------------------------------------------------ vocabulary
\* the traits the file names: TraitName (lines 7, 25), OtherTrait (61, 65)
CapNames == {"TraitName", "OtherTrait"}

\* concrete types: StructName (lines 12-14) and a second struct of the same shape
Types == {"StructName", "OtherStruct"}

\* the one method of the traits of the file
Methods == {"function_name"}

\* values of a String field: the empty string and a non-empty one
Strs == {<<>>, <<"x">>}

\* a value of a struct type: its concrete type and its struct_field
Items == [type : Types, struct_field : Strs]

TypeOf(item) == item.type

\* ----------------------------------------------------------------- bodies
NoBody == "no_body"
\* fn function_name(&self) -> String { String::from("(Default implementation...)") }
DefaultBody == "default_body"
\* fn function_name(&self) -> String { format!("{}", self.struct_field) }
CustomBody == "custom_body"

\* format!("{}", arg): the literal pieces around the argument's Display text
Format(pre, arg, post) == pre \o arg \o post

\* running a method body on a receiver
Call(body, self) ==
    IF body = CustomBody THEN Format(<<>>, self.struct_field, <<>>)
    ELSE <<"(Default implementation...)">>

\* --------------------------------------------------------------- outcomes
NoCap == "-"
NoTables == <<>>
NoLine == <<>>

Ok(tables, line) ==
    [kind |-> "Ok", error |-> "-", cap |-> NoCap, tables |-> tables, line |-> line]

Err(error, cap) ==
    [kind |-> "Err", error |-> error, cap |-> cap, tables |-> NoTables, line |-> NoLine]

NoItems == <<>>

\* ------------------------------------------------------------------ traits
\* the default body a declared trait supplies for its method, NoBody if none
DefaultOf(c) == IF traits[c] = "provided" THEN DefaultBody ELSE NoBody

Declared(c) == traits[c] # "undeclared"

\* the impl block in scope for (t, c), as a set of at most one element
ImplsFor(t, c) == {i \in impls : i.type = t /\ i.trait = c}

Conforms(t, c) == ImplsFor(t, c) # {}

\* MethodTable with the trait's default shadowing the impl's own body
MethodTable_defaultShadows(i) ==
    [m \in Methods |-> IF DefaultOf(i.trait) # NoBody THEN DefaultOf(i.trait) ELSE CustomBody]

\* the method table of an impl: the impl's own body where it gives one,
\* the trait's default body otherwise
MethodTable(i) ==
    [m \in Methods |-> IF m \in i.overrides THEN CustomBody ELSE DefaultOf(i.trait)]

\* method resolution for a (type, trait) pair
lookup(t, c) ==
    IF ~Conforms(t, c) THEN Err("NotImplemented", c)
    ELSE Ok(<<MethodTable(CHOOSE i \in ImplsFor(t, c) : TRUE)>>, NoLine)

\* ---------------------------------------------------------------- bounds of the call sites
\* item: &impl TraitName (41, 51) and T: TraitName (46, 56)
BoundTraitName == <<"TraitName">>
\* &(impl TraitName + OtherTrait) (61) and T: TraitName + OtherTrait (65)
BoundTraitNameOtherTrait == <<"TraitName", "OtherTrait">>

\* resolveFixed reading the bound from its right end
RECURSIVE resolveFixed_rightToLeft(_, _)
resolveFixed_rightToLeft(bound, t) ==
    IF bound = <<>> THEN Ok(NoTables, NoLine)
    ELSE LET rest == resolveFixed_rightToLeft(Tail(bound), t)
         IN  IF rest.kind = "Err" THEN rest
             ELSE LET first == lookup(t, Head(bound))
                  IN  IF first.kind = "Err" THEN first
                      ELSE Ok(first.tables \o rest.tables, NoLine)

\* resolution for a named type parameter T with a bound: every trait of the
\* bound, in the order the bound is written, must have an impl for T
RECURSIVE resolveFixed(_, _)
resolveFixed(bound, t) ==
    IF bound = <<>> THEN Ok(NoTables, NoLine)
    ELSE LET first == lookup(t, Head(bound))
         IN  IF first.kind = "Err" THEN first
             ELSE LET rest == resolveFixed(Tail(bound), t)
                  IN  IF rest.kind = "Err" THEN rest
                      ELSE Ok(first.tables \o rest.tables, NoLine)

\* resolveIndirect through a handle that carries the table of one trait only
resolveIndirect_firstTraitOnly(bound, item) ==
    resolveFixed(SubSeq(bound, 1, 1), TypeOf(item))

\* resolution for an `impl Trait` parameter: the argument's own concrete
\* type stands for the anonymous type parameter
resolveIndirect(bound, item) == resolveFixed(bound, TypeOf(item))

\* item.function_name() through the table bound for TraitName
function_name(tables, item) == Call(tables[1].function_name, item)

\* pub fn function_a(item: &impl TraitName)
function_a(item) ==
    LET r == resolveIndirect(BoundTraitName, item)
    IN  IF r.kind = "Err" THEN r
        ELSE Ok(r.tables,
                Format(<<"This type implement the trait! ">>, function_name(r.tables, item), <<>>))

\* pub fn function_b<T: TraitName>(item: &T)
function_b(item) ==
    LET T == TypeOf(item)
        r == resolveFixed(BoundTraitName, T)
    IN  IF r.kind = "Err" THEN r
        ELSE Ok(r.tables,
                Format(<<"This type implement the trait! ">>, function_name(r.tables, item), <<>>))

\* function_c with both arguments tied to one type
function_c_sameType(item1, item2) ==
    IF TypeOf(item1) # TypeOf(item2) THEN Err("TypeMismatch", NoCap)
    ELSE resolveIndirect(BoundTraitName, item1)

\* pub fn function_c(item1: &impl TraitName, item2: &impl TraitName)
function_c(item1, item2) ==
    LET r1 == resolveIndirect(BoundTraitName, item1)
        r2 == resolveIndirect(BoundTraitName, item2)
    IN  IF r1.kind = "Err" THEN r1
        ELSE IF r2.kind = "Err" THEN r2
        ELSE Ok(r1.tables \o r2.tables,
                Format(Format(<<"This types implement the trait! ">>,
                              function_name(r1.tables, item1), <<" ">>),
                       function_name(r2.tables, item2), <<>>))

\* function_d with the bound looked up for each argument before the types are compared
function_d_boundFirst(item1, item2) ==
    LET r1 == resolveFixed(BoundTraitName, TypeOf(item1))
        r2 == resolveFixed(BoundTraitName, TypeOf(item2))
    IN  IF r1.kind = "Err" THEN r1
        ELSE IF r2.kind = "Err" THEN r2
        ELSE IF TypeOf(item1) # TypeOf(item2) THEN Err("TypeMismatch", NoCap)
        ELSE r1

\* pub fn function_d<T: TraitName>(item1: &T, item2: &T)
function_d(item1, item2) ==
    IF TypeOf(item1) # TypeOf(item2) THEN Err("TypeMismatch", NoCap)
    ELSE LET T == TypeOf(item1)
             r == resolveFixed(BoundTraitName, T)
         IN  IF r.kind = "Err" THEN r
             ELSE Ok(r.tables,
                     Format(Format(<<"This types implement the trait! ">>,
                                   function_name(r.tables, item1), <<" ">>),
                            function_name(r.tables, item2), <<>>))

\* pub fn function_e(item: &(impl TraitName + OtherTrait)) {}
function_e(item) == resolveIndirect(BoundTraitNameOtherTrait, item)

\* pub fn function_f<T: TraitName + OtherTrait>(item: &T) {}
function_f(item) ==
    LET T == TypeOf(item)
    IN  resolveFixed(BoundTraitNameOtherTrait, T)

\* ------------------------------------------------------------------ state
NoType == "-"
NoOverrides == {}

Record(op, items, t, c, overrides, result) ==
    [op |-> op, items |-> items, type |-> t, trait |-> c,
     overrides |-> overrides, result |-> result]

\* println!: one more line on standard output
Println(result) ==
    IF result.kind = "Ok" THEN Append(stdout, result.line) ELSE stdout

Init ==
    /\ traits = [c \in CapNames |-> "undeclared"]
    /\ impls = {}
    /\ stdout = <<>>
    /\ last = Record("none", NoItems, NoType, NoCap, NoOverrides, Ok(NoTables, NoLine))

\* pub trait TraitName { fn function_name(&self) -> String; }
DeclareRequired(c) ==
    /\ ~Declared(c)
    /\ traits' = [traits EXCEPT ![c] = "required"]
    /\ last' = Record("trait", NoItems, NoType, c, NoOverrides, Ok(NoTables, NoLine))
    /\ UNCHANGED <<impls, stdout>>

\* pub trait TraitName { fn function_name(&self) -> String { ... } }
DeclareProvided(c) ==
    /\ ~Declared(c)
    /\ traits' = [traits EXCEPT ![c] = "provided"]
    /\ last' = Record("trait", NoItems, NoType, c, NoOverrides, Ok(NoTables, NoLine))
    /\ UNCHANGED <<impls, stdout>>

\* Check that accepts every impl block
Check_acceptAll(c, overrides) == Ok(NoTables, NoLine)

\* an impl block is accepted when every method of the trait gets a body
Check(c, overrides) ==
    IF \E m \in Methods : m \notin overrides /\ DefaultOf(c) = NoBody
    THEN Err("MissingImplementation", c)
    ELSE Ok(NoTables, NoLine)

\* impl TraitName for StructName { fn function_name(&self) -> String { ... } }
\* and impl TraitName for StructName {}
Impl(t, c, overrides) ==
    /\ Declared(c)
    /\ ~Conforms(t, c)
    /\ LET result == Check(c, overrides)
       IN  /\ impls' = IF result.kind = "Ok"
                       THEN impls \cup {[type |-> t, trait |-> c, overrides |-> overrides]}
                       ELSE impls
           /\ last' = Record("impl", NoItems, t, c, overrides, result)
    /\ UNCHANGED <<traits, stdout>>

ImplOverride(t, c) == Impl(t, c, {"function_name"})

ImplEmpty(t, c) == Impl(t, c, {})

CallA(item) ==
    /\ Declared("TraitName")
    /\ Len(stdout) < MaxOut
    /\ LET result == function_a(item)
       IN  /\ stdout' = Println(result)
           /\ last' = Record("function_a", <<item>>, NoType, NoCap, NoOverrides, result)
    /\ UNCHANGED <<traits, impls>>

CallB(item) ==
    /\ Declared("TraitName")
    /\ Len(stdout) < MaxOut
    /\ LET result == function_b(item)
       IN  /\ stdout' = Println(result)
           /\ last' = Record("function_b", <<item>>, NoType, NoCap, NoOverrides, result)
    /\ UNCHANGED <<traits, impls>>

CallC(item1, item2) ==
    /\ Declared("TraitName")
    /\ Len(stdout) < MaxOut
    /\ LET result == function_c(item1, item2)
       IN  /\ stdout' = Println(result)
           /\ last' = Record("function_c", <<item1, item2>>, NoType, NoCap, NoOverrides, result)
    /\ UNCHANGED <<traits, impls>>

CallD(item1, item2) ==
    /\ Declared("TraitName")
    /\ Len(stdout) < MaxOut
    /\ LET result == function_d(item1, item2)
       IN  /\ stdout' = Println(result)
           /\ last' = Record("function_d", <<item1, item2>>, NoType, NoCap, NoOverrides, result)
    /\ UNCHANGED <<traits, impls>>

CallE(item) ==
    /\ Declared("TraitName") /\ Declared("OtherTrait")
    /\ last' = Record("function_e", <<item>>, NoType, NoCap, NoOverrides, function_e(item))
    /\ UNCHANGED <<traits, impls, stdout>>

CallF(item) ==
    /\ Declared("TraitName") /\ Declared("OtherTrait")
    /\ last' = Record("function_f", <<item>>, NoType, NoCap, NoOverrides, function_f(item))
    /\ UNCHANGED <<traits, impls, stdout>>

Next ==
    \/ \E c \in CapNames : DeclareRequired(c)
    \/ \E c \in CapNames : DeclareProvided(c)
    \/ \E t \in Types, c \in CapNames : ImplOverride(t, c)
    \/ \E t \in Types, c \in CapNames : ImplEmpty(t, c)
    \/ \E item \in Items : CallA(item)
    \/ \E item \in Items : CallB(item)
    \/ \E item1 \in Items, item2 \in Items : CallC(item1, item2)
    \/ \E item1 \in Items, item2 \in Items : CallD(item1, item2)
    \/ \E item \in Items : CallE(item)
    \/ \E item \in Items : CallF(item)

Spec == Init /\ [][Next]_vars

TypeOK ==
    /\ traits \in [CapNames -> {"undeclared", "required", "provided"}]
    /\ impls \subseteq [type : Types, trait : CapNames, overrides : SUBSET Methods]
    /\ Len(stdout) <= MaxOut

\* ------------------------------------------------------------------ claims
LastItem(k) == last.items[k]

LastCall(op) == last.op = op

C3_IndirectResolvesEachHandleAlone ==
    LastCall("function_c") =>
       /\ last.result.error # "TypeMismatch"
       /\ (Conforms(TypeOf(LastItem(1)), "TraitName") /\ Conforms(TypeOf(LastItem(2)), "TraitName")) =>
             /\ last.result.kind = "Ok"
             /\ last.result.tables =
                   lookup(TypeOf(LastItem(1)), "TraitName").tables \o
                   lookup(TypeOf(LastItem(2)), "TraitName").tables
             /\ last.result.line =
                   <<"This types implement the trait! ">> \o
                   function_name(function_a(LastItem(1)).tables, LastItem(1)) \o <<" ">> \o
                   function_name(function_a(LastItem(2)).tables, LastItem(2))

\* function_c succeeded on two types whose impls differ
C3_Witness ==
    /\ LastCall("function_c")
    /\ TypeOf(LastItem(1)) # TypeOf(LastItem(2))
    /\ last.result.kind = "Ok"
    /\ last.result.tables[1] # last.result.tables[2]

C6_MissingImplementationRejected ==
    /\ \A i \in impls : \A m \in Methods : MethodTable(i)[m] # NoBody
    /\ (/\ LastCall("impl")
        /\ \E m \in Methods : m \notin last.overrides /\ traits[last.trait] = "required") =>
          /\ last.result = Err("MissingImplementation", last.trait)
          /\ ~Conforms(last.type, last.trait)
          /\ lookup(last.type, last.trait) = Err("NotImplemented", last.trait)

\* an empty impl block of a trait without a default was just rejected
C6_Witness ==
    /\ LastCall("impl")
    /\ last.overrides = {}
    /\ traits[last.trait] = "required"
    /\ last.result.error = "MissingImplementation"

====
